---- MODULE Spec2Model ----
(***************************************************************************)
(* Bounded multi-source shortest path benchmark (impls/c and impls/cpp):   *)
(* graph construction in CSR form (lattice, random, preferential           *)
(* attachment, edge-list file), source selection, and the bounded          *)
(* Dijkstra loop of main().                                                *)
(*                                                                         *)
(* 64-bit unsigned values.  A U64 value x is held as the integer x when    *)
(* x < 2^63 and as x - 2^64 otherwise (its two's-complement reading), so   *)
(* ULLONG_MAX is -1 and 2^64 - 2 is -2.  Addition modulo 2^64 is then      *)
(* integer addition, and the unsigned order is U64Lt.  All values of the   *)
(* model stay within a few units of 0 or of 2^64.                          *)
(*                                                                         *)
(* Scope: one trial (--trials 1) on well-formed files; node ids are taken   *)
(* as read (no 32-bit truncation) and --maxw is at least 1.                 *)
(***************************************************************************)
EXTENDS Integers, Sequences, FiniteSets, TLC

VARIABLES
    impl,          \* "c" (impls/c/src/main.c) or "cpp" (impls/cpp/src/main.cpp)
    kind,          \* graph source: "file", "grid", "er", "ba"
    pc,            \* position in main()
    n,             \* g.n
    rows, cols,    \* --rows, --cols
    maxw,          \* --maxw
    m0, m_each,    \* --m0, --m
    k,             \* --k, or the count in the sources file
    B,             \* --B
    elist,         \* records (u, v, w) of the graph file
    srcfile,       \* records (s, d0) of the sources file; "none" without --sources-file
    head, edges,   \* g.head (indexed 0..n), g.edges (edge ei is edges[ei+1])
    adj,           \* vector<vector<Edge>> adj of make_er / make_ba (cpp)
    ends,          \* attachment endpoints of make_ba
    u, j,          \* loop counters of the generators
    src,           \* selected sources, a sequence of <<s, d0>>
    dist,          \* dist[0..n-1]
    past,          \* the memory cell dist[n] just past the array: <<>> until it
                   \* is first read or written, then <<value>>
    pq,            \* the heap: a sequence (cpp: priority order; c: the heap array)
    b_prime, popped, heap_pushes, edges_scanned,
    cur, ei,       \* the popped entry being scanned and the edge index
    obs,           \* history: every value >= B the run has observed
    order,         \* history: the d of every pop that passed the staleness check
    fault          \* TRUE once the run has indexed an array out of range

vars == <<impl, kind, pc, n, rows, cols, maxw, m0, m_each, k, B, elist, srcfile,
          head, edges, adj, ends, u, j, src, dist, past, pq, b_prime, popped,
          heap_pushes, edges_scanned, cur, ei, obs, order, fault>>

\* ---------------------------------------------------------------- bounds
MaxN == 2
MaxM == 2
MaxK == 2
MaxW == 2
MaxEach == 2

\* ---------------------------------------------------------------- U64
ULLONG_MAX == -1

U64Lt(a, b) == IF (a >= 0) = (b >= 0) THEN a < b ELSE a >= 0
U64Ge(a, b) == ~U64Lt(a, b)
U64Add(a, b) == a + b

\* Weights a graph file can give: 0, small ones, and 2^64 - 1.
FileWeights == {0, 1, 2, ULLONG_MAX}
PosWeights == {1, 2, ULLONG_MAX}
InitDists == {0, 1, 2}
BoundsB == {0, 1, 3}

Edge(to, w) == [to |-> to, w |-> w]
Rec(uu, vv, ww) == [u |-> uu, v |-> vv, w |-> ww]

RECURSIVE SeqsUpTo(_, _)
SeqsUpTo(S, len) ==
    IF len = 0 THEN {<<>>}
    ELSE LET shorter == SeqsUpTo(S, len - 1)
         IN shorter \cup {Append(s, x) : s \in {t \in shorter : Len(t) = len - 1}, x \in S}

\* ---------------------------------------------------------------- CSR construction
RECURSIVE Flatten(_, _, _)
\* edges of adj[0], ..., adj[upto-1], in that order
Flatten(a, upto, acc) ==
    IF upto = 0 THEN acc ELSE Flatten(a, upto - 1, a[upto - 1] \o acc)

\* from_adj: g.edges is the concatenation, g.head[u+1] the running count
from_adj(a, nn) ==
    [head |-> [i \in 0..nn |-> Len(Flatten(a, i, <<>>))],
     edges |-> Flatten(a, nn, <<>>)]

RECURSIVE RecsOf(_, _, _)
\* adj[uu] of from_edge_list: the records with source uu, both ids in range
RecsOf(el, uu, nn) ==
    IF el = <<>> THEN <<>>
    ELSE LET t == Head(el)
             rest == RecsOf(Tail(el), uu, nn)
         IN IF t.u < nn /\ t.v < nn /\ t.u = uu
            THEN <<Edge(t.v, t.w)>> \o rest ELSE rest

from_edge_list(nn, el) ==
    from_adj([uu \in 0..(nn - 1) |-> RecsOf(el, uu, nn)], nn)

RECURSIVE ReadRecords(_, _, _, _)
\* the record loop of read_graph_file: every record is stored; head[uu+1] is
\* raised to the running count when uu+1 <= n
ReadRecords(el, nn, h, es) ==
    IF el = <<>> THEN [head |-> h, edges |-> es]
    ELSE LET t == Head(el)
             es2 == Append(es, Edge(t.v, t.w))
             m == Len(es2)
             h2 == IF t.u + 1 <= nn /\ h[t.u + 1] < m
                   THEN [h EXCEPT ![t.u + 1] = m] ELSE h
         IN ReadRecords(Tail(el), nn, h2, es2)

RECURSIVE FixHead(_, _, _)
\* "Fix head to be non-decreasing": for i = 1..n
FixHead(h, i, nn) ==
    IF i > nn THEN h
    ELSE FixHead(IF h[i] < h[i - 1] THEN [h EXCEPT ![i] = h[i - 1]] ELSE h, i + 1, nn)

read_graph_file(nn, el) ==
    LET r == ReadRecords(el, nn, [i \in 0..nn |-> 0], <<>>)
    IN [head |-> FixHead(r.head, 1, nn), edges |-> r.edges]

\* ---------------------------------------------------------------- generators
\* rnd_w: rng() % maxw + 1, any value of 1..maxw
rnd_w(mw) == 1..mw

Min(a, b) == IF a < b THEN a ELSE b
Max(a, b) == IF a > b THEN a ELSE b

\* first node after the initial clique of make_ba
ba_start ==
    IF impl = "c" THEN (IF m0 # 0 THEN (IF m0 > n THEN n ELSE m0) ELSE 1)
    ELSE Min(Max(m0, 1), n)

\* the four neighbours of lattice node (r, c), in the order down, right, up, left
GridTargets(r, c) ==
    (IF r + 1 < rows THEN <<(r + 1) * cols + c>> ELSE <<>>)
    \o (IF c + 1 < cols THEN <<r * cols + (c + 1)>> ELSE <<>>)
    \o (IF r > 0 THEN <<(r - 1) * cols + c>> ELSE <<>>)
    \o (IF c > 0 THEN <<r * cols + (c - 1)>> ELSE <<>>)

RECURSIVE RowOf(_, _, _)
\* the edges of one node: targets v < nn in increasing order with pick[v] # 0,
\* weight pick[v]
RowOf(pick, v, nn) ==
    IF v >= nn THEN <<>>
    ELSE (IF pick[v] # 0 THEN <<Edge(v, pick[v])>> ELSE <<>>) \o RowOf(pick, v + 1, nn)

RECURSIVE Repeat(_, _)
Repeat(x, cnt) == IF cnt = 0 THEN <<>> ELSE <<x>> \o Repeat(x, cnt - 1)

Range(s) == {s[i] : i \in 1..Len(s)}

builderVars == <<head, edges, adj, ends, u, j>>
runVars == <<src, dist, past, pq, b_prime, popped, heap_pushes, edges_scanned,
             cur, ei, obs, order>>
argVars == <<impl, kind, n, rows, cols, maxw, m0, m_each, k, B, elist, srcfile>>

\* push_edge for every edge of `row`, then g.head[u+1] = g.m
CloseNode(row) ==
    /\ edges' = edges \o row
    /\ head' = [head EXCEPT ![u + 1] = Len(edges) + Len(row)]

\* make_grid, one node per step (both implementations write edges and head directly)
GridNode ==
    /\ pc = "grid" /\ u < n
    /\ \E ws \in [1..4 -> rnd_w(maxw)] :
         LET ts == GridTargets(u \div cols, u % cols)
         IN CloseNode([i \in 1..Len(ts) |-> Edge(ts[i], ws[i])])
    /\ u' = u + 1
    /\ UNCHANGED <<pc, adj, ends, j, fault>>
    /\ UNCHANGED argVars /\ UNCHANGED runVars

\* make_grid before the node loop: m_est = (size_t)rows*(cols-1) +
\* (size_t)cols*(rows-1), the decrements taken in 32 bits.  With exactly one of
\* rows, cols zero a decrement wraps to 2^32 - 1 and m_est is at least 2^32 - 1.
m_est_huge == (rows # 0 /\ cols = 0) \/ (cols # 0 /\ rows = 0)

\* g.edges.reserve(m_est*2+4) (cpp): a huge request throws std::bad_alloc where
\* the allocator refuses it, and the program is terminated; where it is granted
\* the run goes on.  The c version does not use the result of malloc when n = 0.
GridReserve ==
    /\ pc = "reserve"
    /\ pc' \in (IF impl = "cpp" /\ m_est_huge THEN {"grid", "crash"} ELSE {"grid"})
    /\ UNCHANGED <<fault>> /\ UNCHANGED builderVars
    /\ UNCHANGED argVars /\ UNCHANGED runVars

GridDone ==
    /\ pc = "grid" /\ u >= n
    /\ pc' = "built"
    /\ UNCHANGED <<fault>> /\ UNCHANGED builderVars
    /\ UNCHANGED argVars /\ UNCHANGED runVars

\* make_er, one source node per step: each v # u is included or not
ERNode ==
    /\ pc = "er" /\ u < n
    /\ \E pick \in [0..(n - 1) -> {0} \cup rnd_w(maxw)] :
         /\ pick[u] = 0
         /\ IF impl = "c"
            THEN CloseNode(RowOf(pick, 0, n)) /\ adj' = adj
            ELSE adj' = [adj EXCEPT ![u] = RowOf(pick, 0, n)]
                 /\ UNCHANGED <<head, edges>>
    /\ u' = u + 1
    /\ UNCHANGED <<pc, ends, j, fault>>
    /\ UNCHANGED argVars /\ UNCHANGED runVars

\* end of a generator that collects adj: from_adj (cpp); the c graph is complete
CollectDone(at) ==
    /\ pc = at
    /\ pc' = "built"
    /\ IF impl = "cpp"
       THEN head' = from_adj(adj, n).head /\ edges' = from_adj(adj, n).edges
       ELSE UNCHANGED <<head, edges>>
    /\ UNCHANGED <<adj, ends, u, j, fault>>
    /\ UNCHANGED argVars /\ UNCHANGED runVars

ERDone == u >= n /\ CollectDone("er")

\* the clique row of node u: weight ws[v] to every other v < start, 0 for no edge
CliquePick_SelfEdge(ws) ==
    [v \in 0..(n - 1) |-> IF v < ba_start THEN ws[v] ELSE 0]

CliquePick(ws) ==
    [v \in 0..(n - 1) |-> IF v # u /\ v < ba_start THEN ws[v] ELSE 0]

\* make_ba, initial clique: node u gets an edge to every other clique member and
\* is appended to ends once per edge.  In c, g.head[u+1] is written although
\* head has n+1 elements: out of range when n = 0 (start is 1 then); the run
\* crashes or goes on with head as it is.
BAClique ==
    /\ pc = "ba" /\ u < ba_start
    /\ \E ws \in [0..(n - 1) -> rnd_w(maxw)] :
         LET row == RowOf(CliquePick(ws), 0, n)
         IN /\ ends' = ends \o Repeat(u, Len(row))
            /\ IF impl = "c"
               THEN IF u + 1 <= n
                    THEN CloseNode(row) /\ UNCHANGED <<adj, fault, pc>>
                    ELSE /\ fault' = TRUE /\ pc' \in {"ba", "crash"}
                         /\ UNCHANGED <<head, edges, adj>>
               ELSE adj' = [adj EXCEPT ![u] = row] /\ UNCHANGED <<head, edges, fault, pc>>
    /\ u' = u + 1
    /\ UNCHANGED j
    /\ UNCHANGED argVars /\ UNCHANGED runVars

\* the target of one attachment edge: ends[rng() % ends.size()], or rng() % u
\* while ends is empty
ba_target == IF ends = <<>> THEN (IF u = 0 THEN {0} ELSE 0..(u - 1)) ELSE Range(ends)

\* make_ba, one attachment edge of node u; ends gains the target and u
BAAttachEdge ==
    /\ pc = "ba" /\ u >= ba_start /\ u < n /\ j < m_each
    /\ \E t \in ba_target, w \in rnd_w(maxw) :
         /\ IF impl = "c"
            THEN edges' = Append(edges, Edge(t, w)) /\ adj' = adj
            ELSE adj' = [adj EXCEPT ![u] = Append(@, Edge(t, w))] /\ edges' = edges
         /\ ends' = ends \o <<t, u>>
    /\ j' = j + 1
    /\ UNCHANGED <<pc, head, u, fault>>
    /\ UNCHANGED argVars /\ UNCHANGED runVars

\* make_ba, node u has its m_each edges: g.head[u+1] = g.m (c), next node
BAAttachNext ==
    /\ pc = "ba" /\ u >= ba_start /\ u < n /\ j >= m_each
    /\ head' = IF impl = "c" THEN [head EXCEPT ![u + 1] = Len(edges)] ELSE head
    /\ u' = u + 1 /\ j' = 0
    /\ UNCHANGED <<pc, edges, adj, ends, fault>>
    /\ UNCHANGED argVars /\ UNCHANGED runVars

BADone == u >= ba_start /\ u >= n /\ CollectDone("ba")

\* the edge-list file: read_graph_file (c), from_edge_list (cpp)
LoadGraph ==
    /\ pc = "load"
    /\ LET g == IF impl = "c" THEN read_graph_file(n, elist) ELSE from_edge_list(n, elist)
       IN head' = g.head /\ edges' = g.edges
    /\ pc' = "built"
    /\ UNCHANGED <<adj, ends, u, j, fault>>
    /\ UNCHANGED argVars /\ UNCHANGED runVars

NextBuild ==
    \/ GridReserve \/ GridNode \/ GridDone \/ ERNode \/ ERDone
    \/ BAClique \/ BAAttachEdge \/ BAAttachNext \/ BADone
    \/ LoadGraph

\* ---------------------------------------------------------------- the heap
\* Entry::operator< reversed: the entry the priority_queue yields first
EntryBefore(a, b) == IF a[1] # b[1] THEN U64Lt(a[1], b[1]) ELSE a[2] < b[2]

RECURSIVE pq_push(_, _)
\* std::priority_queue held in the order it yields its entries
pq_push(q, e) ==
    IF q = <<>> THEN <<e>>
    ELSE IF EntryBefore(e, Head(q)) THEN <<e>> \o q
    ELSE <<Head(q)>> \o pq_push(Tail(q), e)

RECURSIVE SiftUp(_, _, _)
\* the while(i) loop of heap_push; data[i] is d[i+1]
SiftUp(d, i, e) ==
    IF i = 0 THEN [d EXCEPT ![1] = e]
    ELSE LET p == (i - 1) \div 2
         IN IF ~U64Lt(e[1], d[p + 1][1]) THEN [d EXCEPT ![i + 1] = e]
            ELSE SiftUp([d EXCEPT ![i + 1] = d[p + 1]], p, e)

heap_push(h, e) == SiftUp(Append(h, e), Len(h), e)

RECURSIVE SiftDown(_, _, _, _)
\* the while(1) loop of heap_pop over the hn remaining entries
SiftDown(d, i, x, hn) ==
    LET l == 2 * i + 1
        r == l + 1
    IN IF l >= hn THEN [d EXCEPT ![i + 1] = x]
       ELSE LET m == IF r < hn /\ U64Lt(d[r + 1][1], d[l + 1][1]) THEN r ELSE l
            IN IF U64Ge(d[m + 1][1], x[1]) THEN [d EXCEPT ![i + 1] = x]
               ELSE SiftDown([d EXCEPT ![i + 1] = d[m + 1]], m, x, hn)

\* the heap after heap_pop (the popped entry is h[1])
heap_pop(h) ==
    LET hn == Len(h) - 1
    IN IF hn = 0 THEN <<>> ELSE SiftDown(SubSeq(h, 1, hn), 0, h[Len(h)], hn)

Push(q, e) == IF impl = "c" THEN heap_push(q, e) ELSE pq_push(q, e)
PopRest(q) == IF impl = "c" THEN heap_pop(q) ELSE Tail(q)

\* ---------------------------------------------------------------- source selection
\* --sources-file: cpp keeps (s, d0); read_sources_file (c) keeps s only
ReadSources ==
    /\ pc = "built" /\ srcfile # "none"
    /\ k' = Len(srcfile)
    /\ src' = IF impl = "c" THEN [i \in 1..Len(srcfile) |-> srcfile[i][1]] ELSE srcfile
    /\ pc' = "trial"
    /\ UNCHANGED <<impl, kind, n, rows, cols, maxw, m0, m_each, B, elist, srcfile>>
    /\ UNCHANGED builderVars
    /\ UNCHANGED <<dist, past, pq, b_prime, popped, heap_pushes, edges_scanned,
                   cur, ei, obs, order, fault>>

SrcId(x) == IF impl = "c" THEN x ELSE x[1]
SrcEntry(s) == IF impl = "c" THEN s ELSE <<s, 0>>

\* pick_sources, one draw of the while loop: s = rng() % n is kept when unused.
\* With n = 0 the remainder is a division by zero, which traps.
PickDraw ==
    /\ pc = "built" /\ srcfile = "none" /\ Len(src) < k
    /\ IF n = 0
       THEN pc' = "crash" /\ fault' = TRUE /\ src' = src
       ELSE \E s \in 0..(n - 1) :
              /\ src' = IF s \in {SrcId(src[i]) : i \in 1..Len(src)}
                        THEN src ELSE Append(src, SrcEntry(s))
              /\ UNCHANGED <<pc, fault>>
    /\ UNCHANGED argVars /\ UNCHANGED builderVars
    /\ UNCHANGED <<dist, past, pq, b_prime, popped, heap_pushes, edges_scanned,
                   cur, ei, obs, order>>

PickDone ==
    /\ pc = "built" /\ srcfile = "none" /\ Len(src) >= k
    /\ pc' = "trial"
    /\ UNCHANGED argVars /\ UNCHANGED builderVars /\ UNCHANGED runVars
    /\ UNCHANGED fault

\* ---------------------------------------------------------------- the engine
SourceActive_UpToB(x) == IF impl = "c" THEN TRUE ELSE ~U64Lt(B, x[2])

\* whether a source is given a distance and pushed
SourceActive(x) == IF impl = "c" THEN TRUE ELSE U64Lt(x[2], B)
\* the distance it is given
SourceDist(x) == IF impl = "c" THEN 0 ELSE x[2]

RECURSIVE InitSources(_, _, _, _)
\* the source loop at the start of a trial; a write to dist[s] with s >= n
\* lands in the cell past the array
InitSources(xs, d, p, q) ==
    IF xs = <<>> THEN [dist |-> d, past |-> p, pq |-> q]
    ELSE LET x == Head(xs)
             s == SrcId(x)
         IN IF SourceActive(x)
            THEN InitSources(Tail(xs),
                             IF s < n THEN [d EXCEPT ![s] = SourceDist(x)] ELSE d,
                             IF s < n THEN p ELSE <<SourceDist(x)>>,
                             Push(q, <<SourceDist(x), s>>))
            ELSE InitSources(Tail(xs), d, p, q)

\* start of a trial: dist filled with the sentinel, the sources pushed.  A
\* write outside dist crashes the run or lands in the cell past the array.
InitTrial ==
    /\ pc = "trial"
    /\ LET r == InitSources(src, [v \in 0..(n - 1) |-> ULLONG_MAX], past, <<>>)
           oob == \E i \in 1..Len(src) : SourceActive(src[i]) /\ SrcId(src[i]) >= n
       IN /\ dist' = r.dist /\ past' = r.past /\ pq' = r.pq
          /\ fault' = (fault \/ oob)
          /\ pc' \in (IF oob THEN {"loop", "crash"} ELSE {"loop"})
    /\ b_prime' = ULLONG_MAX /\ popped' = 0 /\ heap_pushes' = 0 /\ edges_scanned' = 0
    /\ UNCHANGED <<src, cur, ei, obs, order>>
    /\ UNCHANGED argVars /\ UNCHANGED builderVars

\* what a read of the cell past the array may yield before anything was
\* written to it
Garbage == {0, ULLONG_MAX}

\* the values a read of dist[v] may yield: the array cell, or for v >= n the
\* cell past the array (what was last written or read there)
DistRead(v) == IF v < n THEN {dist[v]} ELSE IF past = <<>> THEN Garbage ELSE {past[1]}

\* pop, staleness check, boundary check, popped++, and the bounds of the
\* node's block.  An entry with v >= n reads dist[v] past the array: the run
\* crashes, or the read yields the cell past the array, which holds the d that
\* was written when the entry was pushed unless a later write replaced it.
\* Settling such an entry reads its block's end head[v+1] past head: the run
\* crashes or finds no edge to scan.
Pop ==
    /\ pc = "loop" /\ pq # <<>>
    /\ LET d == pq[1][1]
           v == pq[1][2]
           inside == v < n
       IN /\ pq' = PopRest(pq)
          /\ fault' = (fault \/ ~inside)
          /\ \E dv \in DistRead(v) :
               /\ past' = IF inside THEN past ELSE <<dv>>
               /\ IF d # dv
                  THEN /\ pc' \in (IF inside THEN {"loop"} ELSE {"loop", "crash"})
                       /\ UNCHANGED <<b_prime, popped, cur, ei, obs, order>>
                  ELSE IF U64Ge(d, B)
                  THEN /\ b_prime' = d
                       /\ pc' \in (IF inside THEN {"done"} ELSE {"done", "crash"})
                       /\ obs' = obs \cup {d} /\ order' = Append(order, d)
                       /\ UNCHANGED <<popped, cur, ei>>
                  ELSE /\ popped' = popped + 1
                       /\ cur' = <<d, v>> /\ ei' = head[v]
                       /\ pc' \in (IF inside
                                   THEN {IF head[v] < head[v + 1] THEN "scan" ELSE "loop"}
                                   ELSE {"loop", "crash"})
                       /\ order' = Append(order, d)
                       /\ UNCHANGED <<b_prime, obs>>
    /\ UNCHANGED <<src, dist, heap_pushes, edges_scanned>>
    /\ UNCHANGED argVars /\ UNCHANGED builderVars

\* whether edge candidate nd relaxes dist[to]
Relaxes(nd, dto) == U64Lt(nd, dto) /\ U64Lt(nd, B)
BPrimeAfter_Last(nd, bp) == IF U64Ge(nd, B) THEN nd ELSE bp

\* b_prime after a candidate nd that did not relax
BPrimeAfter(nd, bp) == IF U64Ge(nd, B) /\ U64Lt(nd, bp) THEN nd ELSE bp

\* one edge of the settled node: nd = d + w, relax or track the boundary.  A
\* target >= n (the c loader stores any) reads and writes dist[to] past the
\* array: the run crashes, or goes on with the cell past the array.
ScanEdge ==
    /\ pc = "scan"
    /\ LET e == edges[ei + 1]
           nd == U64Add(cur[1], e.w)
           onward == IF ei + 1 < head[cur[2] + 1] THEN "scan" ELSE "loop"
           inside == e.to < n
       IN /\ \E dto \in DistRead(e.to) :
               IF Relaxes(nd, dto)
               THEN /\ dist' = IF inside THEN [dist EXCEPT ![e.to] = nd] ELSE dist
                    /\ past' = IF inside THEN past ELSE <<nd>>
                    /\ pq' = Push(pq, <<nd, e.to>>)
                    /\ heap_pushes' = heap_pushes + 1
                    /\ b_prime' = b_prime
               ELSE /\ b_prime' = BPrimeAfter(nd, b_prime)
                    /\ past' = IF inside THEN past ELSE <<dto>>
                    /\ UNCHANGED <<dist, pq, heap_pushes>>
          /\ pc' \in (IF inside THEN {onward} ELSE {onward, "crash"})
          /\ fault' = (fault \/ ~inside)
          /\ obs' = IF U64Ge(nd, B) THEN obs \cup {nd} ELSE obs
    /\ edges_scanned' = edges_scanned + 1
    /\ ei' = ei + 1
    /\ UNCHANGED <<src, popped, cur, order>>
    /\ UNCHANGED argVars /\ UNCHANGED builderVars

\* the heap is empty: the trial ends
LoopEnd ==
    /\ pc = "loop" /\ pq = <<>>
    /\ pc' = "done"
    /\ UNCHANGED argVars /\ UNCHANGED builderVars /\ UNCHANGED runVars
    /\ UNCHANGED fault

NextRun == ReadSources \/ PickDraw \/ PickDone \/ InitTrial \/ Pop \/ ScanEdge \/ LoopEnd

\* ---------------------------------------------------------------- initial states
\* the state of main() once the arguments (and the file contents) are fixed
Fresh ==
    /\ head = [i \in 0..n |-> 0] /\ edges = <<>>
    /\ adj = [v \in 0..(n - 1) |-> <<>>] /\ ends = <<>>
    /\ u = 0 /\ j = 0
    /\ src = <<>> /\ dist = [v \in 0..(n - 1) |-> ULLONG_MAX] /\ past = <<>> /\ pq = <<>>
    /\ b_prime = ULLONG_MAX /\ popped = 0 /\ heap_pushes = 0 /\ edges_scanned = 0
    /\ cur = <<0, 0>> /\ ei = 0 /\ obs = {} /\ order = <<>>
    /\ fault = FALSE

GridArgs ==
    /\ kind = "grid" /\ pc = "reserve"
    /\ rows \in 0..MaxN /\ cols \in 0..MaxN /\ n = rows * cols
    /\ maxw \in 1..MaxW
    /\ m0 = 0 /\ m_each = 0 /\ elist = <<>>

ERArgs ==
    /\ kind = "er" /\ pc = "er"
    /\ n \in 0..MaxN /\ maxw \in 1..MaxW
    /\ rows = 0 /\ cols = 0 /\ m0 = 0 /\ m_each = 0 /\ elist = <<>>

BAArgs ==
    /\ kind = "ba" /\ pc = "ba"
    /\ n \in 0..MaxN /\ maxw \in 1..MaxW
    /\ m0 \in 0..MaxN /\ m_each \in 0..MaxEach
    /\ rows = 0 /\ cols = 0 /\ elist = <<>>

\* a graph file with node ids 0 .. n-1+over (over = 1 lets the out-of-range id
\* n appear) and weights W
FileArgs(over, W) ==
    /\ kind = "file" /\ pc = "load"
    /\ n \in 0..MaxN
    /\ elist \in SeqsUpTo({Rec(a, b, w) : a \in 0..(n - 1 + over), b \in 0..(n - 1 + over), w \in W}, MaxM)
    /\ rows = 0 /\ cols = 0 /\ maxw = 1 /\ m0 = 0 /\ m_each = 0

InitBuild ==
    /\ impl \in {"c", "cpp"}
    /\ GridArgs \/ ERArgs \/ BAArgs \/ FileArgs(1, FileWeights)
    /\ k = 0 /\ B = 0 /\ srcfile = "none"
    /\ Fresh

SpecBuild == InitBuild /\ [][NextBuild]_vars

\* the run's arguments: --k with random sources, or a sources file whose ids
\* go up to n (n itself is out of range)
RunArgs ==
    /\ B \in BoundsB
    /\ \/ srcfile = "none" /\ k \in 0..MaxK
       \/ k = 0 /\ srcfile \in SeqsUpTo({<<s, d0>> : s \in 0..n, d0 \in InitDists}, MaxK)

\* a run on a well-formed graph file (ids in range, weights > 0)
InitEngine ==
    /\ impl \in {"c", "cpp"}
    /\ FileArgs(0, PosWeights)
    /\ RunArgs
    /\ Fresh

NextEngine == LoadGraph \/ NextRun

SpecEngine == InitEngine /\ [][NextEngine]_vars

\* a run on a preferential-attachment graph
InitBA ==
    /\ impl \in {"c", "cpp"}
    /\ BAArgs
    /\ RunArgs
    /\ Fresh

NextBA == BAClique \/ BAAttachEdge \/ BAAttachNext \/ BADone \/ NextRun

SpecBA == InitBA /\ [][NextBA]_vars

\* the whole program
Init ==
    /\ impl \in {"c", "cpp"}
    /\ GridArgs \/ ERArgs \/ BAArgs \/ FileArgs(1, FileWeights)
    /\ RunArgs
    /\ Fresh

Next == NextBuild \/ NextRun

Spec == Init /\ [][Next]_vars

\* ---------------------------------------------------------------- properties
\* node uu's block edges[head[uu] .. head[uu+1])
Block(uu) == SubSeq(edges, head[uu] + 1, head[uu + 1])

Count(sq, x) == Cardinality({i \in 1..Len(sq) : sq[i] = x})
SameBag(a, b) ==
    /\ Len(a) = Len(b)
    /\ \A x \in Range(a) \cup Range(b) : Count(a, x) = Count(b, x)

RECURSIVE InputEdgesOf(_, _)
\* the (target, weight) pairs of the file's records whose source is uu
InputEdgesOf(el, uu) ==
    IF el = <<>> THEN <<>>
    ELSE (IF Head(el).u = uu THEN <<Edge(Head(el).v, Head(el).w)>> ELSE <<>>)
         \o InputEdgesOf(Tail(el), uu)

IdsInRange == \A i \in 1..Len(elist) : elist[i].u < n /\ elist[i].v < n
Loaded == pc = "built" /\ kind = "file"
Generated == pc = "built" /\ kind \in {"grid", "er", "ba"} /\ ~fault

\* C4: after loading an edge list (ids in range, any record order) every node's
\* block holds exactly the (target, weight) pairs of the records whose source it is.
C4_BlocksHoldOwnRecords ==
    (Loaded /\ IdsInRange) =>
        \A uu \in 0..(n - 1) : SameBag(Block(uu), InputEdgesOf(elist, uu))

\* the same, for from_edge_list alone
C4_CppBlocksHoldOwnRecords == (impl = "cpp") => C4_BlocksHoldOwnRecords

\* C6: every constructed graph has offsets[0] = 0, non-decreasing offsets,
\* offsets[n] = number of stored edges, and every stored weight > 0.
C6_GraphInvariant ==
    (pc = "built" /\ ~fault) =>
        /\ head[0] = 0
        /\ \A i \in 1..n : head[i - 1] <= head[i]
        /\ head[n] = Len(edges)
        /\ \A i \in 1..Len(edges) : edges[i].w # 0

\* the same, for the three generators alone
C6_GeneratorsInvariant == (kind # "file") => C6_GraphInvariant

\* C7: no generated graph holds a self-loop.
C7_NoSelfLoop ==
    Generated =>
        \A uu \in 0..(n - 1) : \A i \in 1..Len(Block(uu)) : Block(uu)[i].to # uu

\* the same, for the lattice and the random generator alone
C7_NoSelfLoopGridER == (kind # "ba") => C7_NoSelfLoop

\* the same, for from_edge_list alone
C6_CppLoaderInvariant == (kind = "file" /\ impl = "cpp") => C6_GraphInvariant

\* ------------------------------------------------ reference shortest distances
\* An exact (unbounded) distance c * 2^64 + r is the pair <<c, r>>, r held
\* like a U64 within a few units of 0 or 2^64.
Exact(x) == IF x >= 0 THEN <<0, x>> ELSE <<1, x>>
Unreached == <<1000, 0>>
ExLt(a, b) == a[1] < b[1] \/ (a[1] = b[1] /\ a[2] < b[2])
ExAdd(a, b) == <<a[1] + b[1], a[2] + b[2]>>
ExMin(S) == CHOOSE x \in S : \A y \in S : ~ExLt(y, x)

\* the sources as given: the file's (s, d0), or the picked ids with d0 = 0
GivenSources ==
    IF srcfile # "none" THEN srcfile
    ELSE [i \in 1..Len(src) |-> <<SrcId(src[i]), 0>>]

\* active sources: those with d0 < B
Start(v) ==
    ExMin({Unreached} \cup
          {Exact(GivenSources[i][2]) : i \in
             {i \in 1..Len(GivenSources) :
                GivenSources[i][1] = v /\ U64Lt(GivenSources[i][2], B)}})

\* edges as triples <<from, to, w>>
EdgeTriples ==
    UNION {{<<uu, edges[i].to, edges[i].w>> : i \in (head[uu] + 1)..head[uu + 1]} :
             uu \in 0..(n - 1)}

RECURSIVE BellmanFord(_, _)
BellmanFord(D, rounds) ==
    IF rounds = 0 THEN D
    ELSE BellmanFord(
           [v \in 0..(n - 1) |->
              ExMin({D[v]} \cup {ExAdd(D[t[1]], Exact(t[3])) :
                                  t \in {t \in EdgeTriples :
                                           t[2] = v /\ D[t[1]] # Unreached}})],
           rounds - 1)

TrueDist == BellmanFord([v \in 0..(n - 1) |-> Start(v)], n)

UniqueInRangeSources ==
    /\ \A i \in 1..Len(GivenSources) : GivenSources[i][1] < n
    /\ \A i, i2 \in 1..Len(GivenSources) :
         GivenSources[i][1] = GivenSources[i2][1] => i = i2

PositiveWeights == \A i \in 1..Len(edges) : edges[i].w # 0
NoWrap == \A i \in 1..Len(edges) : edges[i].w > 0

\* C1: after the main loop every node with distance < B has its true shortest
\* distance from the active sources.
C1_ExactBelowB ==
    (pc = "done" /\ PositiveWeights /\ UniqueInRangeSources) =>
        \A v \in 0..(n - 1) :
            U64Lt(dist[v], B) => Exact(dist[v]) = TrueDist[v]

\* the same, for the cpp engine on weights whose sums stay below 2^64
C1_CppNoWrap == (impl = "cpp" /\ NoWrap) => C1_ExactBelowB

MinU64(S) == CHOOSE x \in S : \A y \in S : ~U64Lt(y, x)

\* C2 (as stated): at the end of a run bprime is the minimum of the observed
\* values >= B, and is the sentinel exactly when none was observed.
C2_MinAndSentinelIffNone ==
    (pc = "done") =>
        /\ b_prime = MinU64(obs \cup {ULLONG_MAX})
        /\ (b_prime = ULLONG_MAX) <=> (obs = {})

\* C2 (amended): at the end of a run bprime is the minimum of the sentinel and
\* the observed values >= B; it is the sentinel exactly when no observed value
\* is below the sentinel.
C2_MinObserved ==
    (pc = "done") =>
        /\ b_prime = MinU64(obs \cup {ULLONG_MAX})
        /\ (b_prime = ULLONG_MAX) <=> (obs \subseteq {ULLONG_MAX})

\* a run that settled two nodes and observed two different values >= B
C2_Witness ==
    /\ pc = "done" /\ ~fault /\ popped >= 2
    /\ Cardinality(obs) >= 2 /\ b_prime # ULLONG_MAX

\* C3: every finite entry of dist and every queue entry is < B.
C3_AllBelowB ==
    (pc \in {"loop", "scan", "done"} /\ UniqueInRangeSources) =>
        /\ \A v \in 0..(n - 1) : dist[v] # ULLONG_MAX => U64Lt(dist[v], B)
        /\ \A i \in 1..Len(pq) : U64Lt(pq[i][1], B)

\* the same, for the cpp engine
C3_CppAllBelowB == (impl = "cpp") => C3_AllBelowB

\* a selection asked for more random sources than nodes, or given an id
\* outside [0, n)
BadSelection ==
    \/ srcfile = "none" /\ k > n
    \/ srcfile # "none" /\ \E i \in 1..Len(srcfile) : srcfile[i][1] >= n
\* pick_sources can draw no unused node any more
PickSpins == pc = "built" /\ srcfile = "none" /\ Len(src) < k /\ Len(src) >= n /\ n > 0

\* C5: such a selection (on a graph with n > 0) never starts a trial, never
\* spins and never indexes out of range.
C5_SelectionFails ==
    (BadSelection /\ n > 0) => (pc \in {"load", "built"} /\ ~PickSpins /\ ~fault)

\* C8 (as stated): B = 0 and sources at distance 0: a source entry is popped,
\* the boundary check fires, bprime = 0 and nothing is settled.
ZeroSources ==
    /\ Len(GivenSources) >= 1
    /\ \A i \in 1..Len(GivenSources) : GivenSources[i][2] = 0 /\ GivenSources[i][1] < n
C8_BoundZeroPopsSource ==
    (pc = "done" /\ B = 0 /\ ZeroSources) =>
        (order = <<0>> /\ b_prime = 0 /\ popped = 0)

\* C8 (amended): B = 0 and sources at distance 0: nothing is settled; the c
\* engine pushes the sources, pops one and ends with bprime = 0; the cpp engine
\* pushes none (d0 < B fails), pops nothing and ends with bprime = sentinel.
C8_BoundZero ==
    (pc = "done" /\ B = 0 /\ ZeroSources) =>
        /\ popped = 0
        /\ impl = "c" => (order = <<0>> /\ b_prime = 0)
        /\ impl = "cpp" => (order = <<>> /\ b_prime = ULLONG_MAX)

C8_Witness == pc = "done" /\ B = 0 /\ ZeroSources /\ impl = "cpp" /\ edges # <<>>

\* C10: the d of the pops that pass the staleness check never decreases.
C10_Monotone ==
    PositiveWeights =>
        \A i \in 1..Len(order) : \A i2 \in 1..Len(order) :
            i < i2 => ~U64Lt(order[i2], order[i])

\* the same, on weights whose sums stay below 2^64
C10_MonotoneNoWrap == NoWrap => C10_Monotone

\* C9 (as stated, for a bound B > 0): preferential attachment with n = 1 and the
\* single source 0: no edge, nothing settled, bprime = sentinel.
OneNodeBA ==
    pc = "done" /\ kind = "ba" /\ n = 1 /\ GivenSources = <<<<0, 0>>>>
C9_OneNodeSettlesNone ==
    (OneNodeBA /\ B # 0) => (edges = <<>> /\ popped = 0 /\ b_prime = ULLONG_MAX)

\* C9 (amended): no edge; with B > 0 the source itself is settled (settled
\* count 1) and bprime = sentinel; nothing is settled only with B = 0.
C9_OneNodeSettlesSource ==
    OneNodeBA =>
        /\ edges = <<>>
        /\ popped = (IF B = 0 THEN 0 ELSE 1)
        /\ B # 0 => (b_prime = ULLONG_MAX /\ dist[0] = 0)

C9_Witness == OneNodeBA /\ B # 0 /\ popped = 1 /\ m0 >= 1 /\ m_each >= 1

====
